---- MODULE Spec2Model ----
(***************************************************************************)
(* A model of the RAG chatbot backend: the API server of src/index.js      *)
(* (POST /api/chat, GET /api/history/:sessionId, POST /api/clear/:id) and  *)
(* the embedding job of the same file (chunkText, embedAndStore).          *)
(*                                                                         *)
(* A JavaScript string is a sequence of one-character strings, so that     *)
(* .length, .split, .trim and concatenation are computed, not assumed.     *)
(***************************************************************************)
EXTENDS Integers, Sequences, FiniteSets, TLC

\* ------------------------------------------------------------------------
\* Bounds of the model
\* ------------------------------------------------------------------------

\* Longest text handed to chunkText in the chunker specification.
MaxLen == 8

\* Largest chunkSize handed to chunkText in the chunker specification.
MaxBound == 4

\* Most sentences of one article of the embedding job's corpus (each sentence
\* of the corpus is one chunk, so this is the most chunks of one article).
MaxSentences == 17

\* Most failures (rejected or malformed calls) injected into one run of the
\* embedding job.
MaxFaults == 3

\* Most requests the API server receives in one run.
MaxRequests == 2

\* ------------------------------------------------------------------------
\* Strings
\* ------------------------------------------------------------------------

\* The characters the regular expression class \s and String.trim() treat as
\* white space, as far as the model's texts use them.
WhiteSpace == {" ", "\n"}

\* The characters of the look-behind class [.?!] of chunkText's split.
SentenceEnd == {".", "?", "!"}

\* The characters the chunker specification builds its texts from.
Alphabet == {"a", ".", " "}

\* String.prototype.trim(): white space removed from both ends.
Trim(s) ==
  IF \A i \in 1..Len(s) : s[i] \in WhiteSpace
  THEN <<>>
  ELSE LET first == CHOOSE i \in 1..Len(s) :
                      s[i] \notin WhiteSpace /\ \A k \in 1..(i - 1) : s[k] \in WhiteSpace
           last == CHOOSE i \in 1..Len(s) :
                     s[i] \notin WhiteSpace /\ \A k \in (i + 1)..Len(s) : s[k] \in WhiteSpace
       IN  SubSeq(s, first, last)

\* A place where /(?<=[.?!])\s+/ starts to match: a white-space character
\* directly after a sentence-ending character.
IsSepStart(t, i) ==
  i >= 2 /\ t[i] \in WhiteSpace /\ t[i - 1] \in SentenceEnd

\* The first place from p on where the pattern matches, 0 if there is none.
FirstSep(t, p) ==
  IF \E i \in p..Len(t) : IsSepStart(t, i)
  THEN CHOOSE i \in p..Len(t) :
         IsSepStart(t, i) /\ \A k \in p..(i - 1) : ~IsSepStart(t, k)
  ELSE 0

\* \s+ is greedy: the match that starts at i runs to the end of the
\* white-space run.
RunEnd(t, i) ==
  CHOOSE j \in i..Len(t) :
    /\ \A k \in i..j : t[k] \in WhiteSpace
    /\ j = Len(t) \/ t[j + 1] \notin WhiteSpace

RECURSIVE SplitFrom(_, _)
SplitFrom(t, p) ==
  LET sep == FirstSep(t, p)
  IN  IF sep = 0
      THEN <<SubSeq(t, p, Len(t))>>
      ELSE <<SubSeq(t, p, sep - 1)>> \o SplitFrom(t, RunEnd(t, sep) + 1)

\* text.split(/(?<=[.?!])\s+/): the separators are dropped, the sentence-ending
\* character stays with its sentence; a separator at the end of the text leaves
\* a last, empty piece, and the empty text splits into one empty piece.
SplitSentences(text) == SplitFrom(text, 1)

\* ------------------------------------------------------------------------
\* chunkText (src/index.js 291-306)
\* ------------------------------------------------------------------------

\* The default value of chunkText's parameter chunkSize.
DefaultChunkSize == 300

\* A chunker that tests the sentence alone and forgets the buffer.
ChunkOverflowsSentenceOnly(currentChunk, sentence, chunkSize) ==
  Len(sentence) > chunkSize

\* (currentChunk + sentence).length > chunkSize
ChunkOverflows(currentChunk, sentence, chunkSize) ==
  Len(currentChunk \o sentence) > chunkSize

\* if (currentChunk) chunks.push(currentChunk.trim()): the empty string is
\* the only falsy string.
PushChunk(chunks, currentChunk) ==
  IF currentChunk # <<>> THEN Append(chunks, Trim(currentChunk)) ELSE chunks

\* A chunker that flushes the buffer and forgets to empty it.
ChunkStepNoReset(chunks, currentChunk, sentence, chunkSize) ==
  LET over == Len(currentChunk \o sentence) > chunkSize
      flushed == IF over /\ currentChunk # <<>>
                 THEN Append(chunks, Trim(currentChunk)) ELSE chunks
  IN  [chunks |-> flushed, currentChunk |-> currentChunk \o sentence \o <<" ">>]

\* One pass of the for loop's body: [chunks, currentChunk] after `sentence`.
ChunkStep(chunks, currentChunk, sentence, chunkSize) ==
  LET over == ChunkOverflows(currentChunk, sentence, chunkSize)
      flushed == IF over THEN PushChunk(chunks, currentChunk) ELSE chunks
      kept == IF over THEN <<>> ELSE currentChunk
  IN  [chunks |-> flushed, currentChunk |-> kept \o sentence \o <<" ">>]

\* The for loop over sentences[lo..hi], from the loop state st = [chunks,
\* currentChunk]. The range is walked in two halves, the first evaluated
\* before the second is entered, which keeps the evaluation of a long text
\* shallow.
RECURSIVE ChunkLoop(_, _, _, _, _)
ChunkLoop(sentences, lo, hi, st, chunkSize) ==
  IF lo > hi THEN st
  ELSE IF lo = hi
  THEN ChunkStep(st.chunks, st.currentChunk, sentences[lo], chunkSize)
  ELSE LET mid == (lo + hi) \div 2
           half == ChunkLoop(sentences, lo, mid, st, chunkSize)
       IN  IF DOMAIN half = DOMAIN st
           THEN ChunkLoop(sentences, mid + 1, hi, half, chunkSize)
           ELSE half

\* chunkText: the split, the loop over the sentences, and the final flush.
chunkText(text, chunkSize) ==
  LET sentences == SplitSentences(text)
      st == ChunkLoop(sentences, 1, Len(sentences),
                      [chunks |-> <<>>, currentChunk |-> <<>>], chunkSize)
  IN  PushChunk(st.chunks, st.currentChunk)

\* ------------------------------------------------------------------------
\* State
\* ------------------------------------------------------------------------

VARIABLES
  ctext,     \* chunker specification: the text argument
  cbound,    \* chunker specification: the chunkSize argument
  cpc,       \* chunker specification: "call" before, "done" after the call
  cchunks,   \* chunker specification: the array chunkText returned
  \* embedAndStore (src/index.js 308-412)
  ipc,              \* where embedAndStore stands
  collectionExists, \* Qdrant: whether news_articles exists
  collection,       \* Qdrant: the points of news_articles, by id
  articles,         \* the parsed corpus.json
  articleIdx,       \* the for-of loop's position in articles (1-based)
  chunks,           \* const chunks of the article being processed
  totalChunks,      \* let totalChunks
  start,            \* let start of the batch loop that is running
  attempt,          \* let attempt of the batch that is running
  allVectors,       \* const allVectors
  points,           \* const points
  nextUuid,         \* the number of v4() ids handed out so far
  thrown,           \* the error embedAndStore rejected with (0: none)
  events,           \* history: the network calls and sleeps, in order
  faults,           \* history: the number of failures injected so far
  \* the API server (src/index.js 11-209)
  reqs,             \* the requests received, each with its handler's state
  store,            \* Redis: the lists that exist, by key
  uuids             \* the number of v4() session ids handed out so far

serverVars == <<reqs, store, uuids>>

chunkVars == <<ctext, cbound, cpc, cchunks>>

ingestVars ==
  <<ipc, collectionExists, collection, articles, articleIdx, chunks,
    totalChunks, start, attempt, allVectors, points, nextUuid, thrown,
    events, faults>>

vars == <<chunkVars, ingestVars, serverVars>>

\* The chunker specification's variables in the other specifications.
ChunkIdle ==
  /\ ctext = <<>>
  /\ cbound = 0
  /\ cpc = "idle"
  /\ cchunks = <<>>

\* The embedding job's variables in the other specifications.
IngestIdle ==
  /\ ipc = "idle"
  /\ collectionExists = FALSE
  /\ collection = <<>>
  /\ articles = <<>>
  /\ articleIdx = 0
  /\ chunks = <<>>
  /\ totalChunks = 0
  /\ start = 0
  /\ attempt = 0
  /\ allVectors = <<>>
  /\ points = <<>>
  /\ nextUuid = 0
  /\ thrown = 0
  /\ events = <<>>
  /\ faults = 0

\* The API server's variables in the other specifications.
ServerIdle ==
  /\ reqs = <<>>
  /\ store = <<>>
  /\ uuids = 0

\* ------------------------------------------------------------------------
\* The API server (src/index.js 11-209)
\* ------------------------------------------------------------------------

\* JavaScript values, as far as the handlers tell them apart: a type and the
\* value's text.
Undefined == [t |-> "undefined", v |-> ""]

Str(x) == [t |-> "string", v |-> x]

Num(x) == [t |-> "number", v |-> x]

Bool(x) == [t |-> "boolean", v |-> x]

\* A test that takes only a missing value for "no value".
FalsyOnlyUndefined(x) == x.t = "undefined"

\* !x of JavaScript: undefined, null, "", 0 and false are falsy; every array
\* and object is truthy.
Falsy(x) ==
  \/ x.t \in {"undefined", "null"}
  \/ x.t = "string" /\ x.v = ""
  \/ x.t = "number" /\ x.v = "0"
  \/ x.t = "boolean" /\ x.v = "false"

\* The values of req.body.query the model sends.
Queries ==
  {Undefined, Str(""), Str("q1"), Num("5"), Bool("false")}

\* The session ids v4() returns, in the order it returns them.
UuidNames == <<"uuid-1", "uuid-2", "uuid-3", "uuid-4">>

\* The texts the generation service returns, one per request.
AnswerNames == <<"answer-1", "answer-2", "answer-3", "answer-4">>

\* The session id a caller makes up.
ClientSession == Str("s1")

\* const historyKey = `chat_history:${sessionId}`
HistoryKey(sessionId) == <<"chat_history:", sessionId.v>>

\* const userMessage = { sender: "user", text: query }
UserMessage(query) == [sender |-> "user", text |-> query]

\* const botMessage = { sender: "bot", text: finalAnswer }
BotMessage(finalAnswer) == [sender |-> "bot", text |-> finalAnswer]

\* JSON.stringify of a message: the text stored in the Redis list.
Stringify(msg) == <<"{", "sender", msg.sender, "text", msg.text, "}">>

\* JSON.parse of a stored item.
Parse(item) == [sender |-> item[3], text |-> item[5]]

\* redisClient.lRange(key, 0, -1): a key that does not exist reads as the
\* empty list.
LRange(st, key) == IF key \in DOMAIN st THEN st[key] ELSE <<>>

\* A push to the head of the list (LPUSH).
LPush(st, key, item) ==
  [k \in DOMAIN st \cup {key} |->
     IF k = key THEN <<item>> \o LRange(st, key) ELSE st[k]]

\* redisClient.rPush(key, item): appends, creating the list.
RPush(st, key, item) ==
  [k \in DOMAIN st \cup {key} |->
     IF k = key THEN Append(LRange(st, key), item) ELSE st[k]]

\* A delete that fails to remove a list that exists.
DelNothing(st, key) == st

\* redisClient.del(key): the key is gone, whether it existed or not.
Del(st, key) == [k \in DOMAIN st \ {key} |-> st[k]]

\* history.map((item) => JSON.parse(item))
HistoryMessages(st, key) ==
  LET history == LRange(st, key)
  IN  [i \in 1..Len(history) |-> Parse(history[i])]

\* The responses. A field the response does not have is Undefined (or empty).
Response(status, error, answer, sessionId, message, messages) ==
  [status |-> status, error |-> error, answer |-> answer,
   sessionId |-> sessionId, message |-> message, messages |-> messages]

NoResponse == Response(0, "", Undefined, Undefined, "", <<>>)

\* res.status(400).json({ error: "Query is required" })
QueryRequired == Response(400, "Query is required", Undefined, Undefined, "", <<>>)

\* A catch block that answers although the pipeline threw.
ChatFailedLeaky(req, error) ==
  Response(200, "", req.answer, req.sessionId, "", <<>>)

\* A catch block that sends the message of the error it caught.
ChatFailedEchoesError(req, error) ==
  Response(500, error, Undefined, Undefined, "", <<>>)

\* catch (error): res.status(500).json({ error: "An error occurred ..." })
ChatFailed(req, error) ==
  Response(500, "An error occurred while processing your request.",
           Undefined, Undefined, "", <<>>)

\* res.json({ answer: finalAnswer, sessionId: sessionId })
ChatAnswered(req) == Response(200, "", req.answer, req.sessionId, "", <<>>)

\* res.json({ messages })
HistoryAnswered(messages) == Response(200, "", Undefined, Undefined, "", messages)

\* res.status(500).json({ error: "Failed to fetch history." })
HistoryFailed == Response(500, "Failed to fetch history.", Undefined, Undefined, "", <<>>)

\* res.json({ message: "Session cleared successfully." })
ClearAnswered ==
  Response(200, "", Undefined, Undefined, "Session cleared successfully.", <<>>)

\* res.status(500).json({ error: "Failed to clear session." })
ClearFailed == Response(500, "Failed to clear session.", Undefined, Undefined, "", <<>>)

\* What qdrantClient.search resolves with: the payload texts of up to 3
\* points. A point stored without a text has payload.text undefined.
SearchResults == {<<>>, <<Str("passage")>>, <<Undefined>>}

\* A context assembly that takes an empty result set for an error.
ContextThrowsOnEmpty(searchResponse) ==
  \/ searchResponse = <<>>
  \/ \E i \in 1..Len(searchResponse) : searchResponse[i].t = "undefined"

\* searchResponse.map((r) => r.payload.text.substring(0, 50) + "..."): a
\* TypeError when a payload has no text.
ContextThrows(searchResponse) ==
  \E i \in 1..Len(searchResponse) : searchResponse[i].t = "undefined"

\* searchResponse.map((result) => result.payload.text).join("\n\n---\n\n")
RECURSIVE Context(_)
Context(searchResponse) ==
  IF searchResponse = <<>> THEN <<>>
  ELSE IF Len(searchResponse) = 1 THEN <<searchResponse[1].v>>
  ELSE <<searchResponse[1].v, "\n\n---\n\n">> \o Context(Tail(searchResponse))

\* const prompt = `... Context: ${context} Question: ${query} Answer:`
Prompt(context, query) == <<"Context:", context, "Question:", query.v, "Answer:">>

\* timeout: 30000 in the options of https.request
EmbedTimeoutMs == 30000

\* The bodies of the errors the providers answer with.
ProviderErrors == {"quota exceeded for key", "ECONNREFUSED 10.0.0.7"}

\* The session ids a caller can send: none, one of its own, or one a chat
\* response has returned.
ReturnedSessions ==
  {reqs[r].resp.sessionId : r \in {q \in 1..Len(reqs) : reqs[q].resp.sessionId # Undefined}}

CallerSessions == {Undefined, ClientSession} \cup ReturnedSessions

\* A request and its handler's state. The fields `before`, `touched`,
\* `appended`, `calls` and `failed` are history: the list under the request's
\* key when the handler started (for clear: when DEL ran), whether another
\* request has written to that key since, the items this request appended,
\* the external calls it made, and the call that failed. `searchResponse`
\* holds what the search resolved with, once it has, `context` and `prompt`
\* the texts built from it; a request that failed keeps them only when the
\* assembly of the context threw.
\* `idleMs` is the time the socket of the embedding call has been idle when
\* its 'timeout' event was emitted, 0 before that and once the call returned.
Request(kind, query, given, sessionId, pc, resp, calls, before) ==
  [kind |-> kind, query |-> query, given |-> given, sessionId |-> sessionId,
   pc |-> pc, searchResponse |-> <<>>, context |-> <<>>, prompt |-> <<>>,
   answer |-> Undefined, resp |-> resp, idleMs |-> 0,
   calls |-> calls, failed |-> "", before |-> before, touched |-> FALSE,
   appended |-> <<>>]

\* Redis holds what earlier runs of the server left: nothing, or one exchange
\* of the caller's session.
InitialStores ==
  {<<>>,
   [k \in {HistoryKey(ClientSession)} |->
      <<Stringify(UserMessage(Str("q0"))), Stringify(BotMessage(Str("answer-0")))>>]}

ServerInit ==
  /\ reqs = <<>>
  /\ store \in InitialStores
  /\ uuids = 0
  /\ ChunkIdle
  /\ IngestIdle

\* The requests, with request r replaced and, when r wrote to the store
\* (wrote is "rPush" or "del", "" for no write), the other requests that use
\* `key` marked as touched: a chat request by any write, a clear request by
\* an append.
WithRequest(r, req, wrote, key) ==
  [q \in 1..Len(reqs) |->
     IF q = r THEN req
     ELSE IF /\ HistoryKey(reqs[q].sessionId) = key
             /\ \/ wrote # "" /\ reqs[q].kind = "chat"
                \/ wrote = "rPush" /\ reqs[q].kind = "clear"
          THEN [reqs[q] EXCEPT !.touched = TRUE]
          ELSE reqs[q]]

\* POST /api/chat, up to the first await: validation, the session id, and the
\* call of getJinaEmbeddings.
ReceiveChat ==
  /\ Len(reqs) < MaxRequests
  /\ \E query \in Queries, given \in CallerSessions :
       IF Falsy(query)
       THEN /\ reqs' = Append(reqs, Request("chat", query, given, given, "done",
                                            QueryRequired, <<>>, <<>>))
            /\ UNCHANGED <<store, uuids>>
       ELSE LET fresh == Falsy(given)
                sessionId == IF fresh THEN Str(UuidNames[uuids + 1]) ELSE given
            IN  /\ reqs' = Append(reqs, Request("chat", query, given, sessionId, "embed",
                                                NoResponse, <<"embed">>,
                                                LRange(store, HistoryKey(sessionId))))
                /\ uuids' = IF fresh THEN uuids + 1 ELSE uuids
                /\ UNCHANGED store
  /\ UNCHANGED <<chunkVars, ingestVars>>

\* The handler `req` after its catch block caught `error`, thrown by `call`.
Caught(req, call, error) ==
  LET caught == [req EXCEPT !.pc = "done", !.failed = call, !.idleMs = 0]
  IN  [caught EXCEPT !.resp = ChatFailed(caught, error)]

\* A catch block that calls the failed service once more before it gives up.
ChatCatchRetries(r, call) ==
  /\ LET n == Len(reqs[r].calls)
     IN  IF n >= 2 /\ reqs[r].calls[n] = reqs[r].calls[n - 1]
         THEN \E error \in ProviderErrors :
                reqs' = WithRequest(r, Caught(reqs[r], call, error), "", <<>>)
         ELSE reqs' = WithRequest(r, [reqs[r] EXCEPT !.calls = Append(@, @[n])],
                                  "", <<>>)
  /\ UNCHANGED <<store, uuids>>

\* The catch block of POST /api/chat, after the call `call` threw with one of
\* the provider's errors. The constants of the try block (searchResponse,
\* context, prompt) are out of scope in it.
ChatCatch(r, call) ==
  /\ \E error \in ProviderErrors :
       LET req == [reqs[r] EXCEPT !.searchResponse = <<>>, !.context = <<>>,
                                  !.prompt = <<>>]
       IN  reqs' = WithRequest(r, Caught(req, call, error), "", <<>>)
  /\ UNCHANGED <<store, uuids>>

\* The socket of getJinaEmbeddings has been idle for the time of the timeout
\* option: the request emits 'timeout'. No listener is registered for it
\* (the only one is req.on("error")), so the request is not destroyed and the
\* promise stays pending.
EmbedSocketTimeout ==
  /\ \E r \in 1..Len(reqs) :
       /\ reqs[r].kind = "chat" /\ reqs[r].pc = "embed" /\ reqs[r].idleMs = 0
       /\ reqs' = WithRequest(r, [reqs[r] EXCEPT !.idleMs = EmbedTimeoutMs], "", <<>>)
  /\ UNCHANGED <<store, uuids>>
  /\ UNCHANGED <<chunkVars, ingestVars>>

\* await getJinaEmbeddings(query) returns; qdrantClient.search is called.
EmbedReturns ==
  /\ \E r \in 1..Len(reqs) :
       /\ reqs[r].kind = "chat" /\ reqs[r].pc = "embed"
       /\ \E ok \in BOOLEAN :
            IF ok
            THEN /\ reqs' = WithRequest(r, [reqs[r] EXCEPT !.pc = "search",
                                              !.idleMs = 0,
                                              !.calls = Append(@, "search")],
                                        "", <<>>)
                 /\ UNCHANGED <<store, uuids>>
            ELSE ChatCatch(r, "embed")
  /\ UNCHANGED <<chunkVars, ingestVars>>

\* await qdrantClient.search(...) returns; the context and the prompt are
\* assembled and geminiModel.generateContent is called.
SearchReturns ==
  /\ \E r \in 1..Len(reqs) :
       /\ reqs[r].kind = "chat" /\ reqs[r].pc = "search"
       /\ \/ \E searchResponse \in SearchResults :
               LET found == [reqs[r] EXCEPT !.searchResponse = <<searchResponse>>]
                   context == Context(searchResponse)
               IN  /\ reqs' = WithRequest(r,
                         IF ContextThrows(searchResponse)
                         THEN Caught(found, "context",
                                     "TypeError: Cannot read properties of undefined")
                         ELSE [found EXCEPT !.pc = "generate",
                                 !.context = context,
                                 !.prompt = Prompt(context, found.query),
                                 !.calls = Append(@, "generate")],
                         "", <<>>)
                   /\ UNCHANGED <<store, uuids>>
          \/ ChatCatch(r, "search")
  /\ UNCHANGED <<chunkVars, ingestVars>>

\* await geminiModel.generateContent(prompt) and response.text() return; the
\* first rPush is called.
GenerateReturns ==
  /\ \E r \in 1..Len(reqs) :
       /\ reqs[r].kind = "chat" /\ reqs[r].pc = "generate"
       /\ \E ok \in BOOLEAN :
            IF ok
            THEN /\ reqs' = WithRequest(r, [reqs[r] EXCEPT !.pc = "rPushUser",
                                              !.answer = Str(AnswerNames[r]),
                                              !.calls = Append(@, "rPush")],
                                        "", <<>>)
                 /\ UNCHANGED <<store, uuids>>
            ELSE ChatCatch(r, "generate")
  /\ UNCHANGED <<chunkVars, ingestVars>>

\* await redisClient.rPush(historyKey, JSON.stringify(userMessage)) returns;
\* the second rPush is called.
RPushUserReturns ==
  /\ \E r \in 1..Len(reqs) :
       /\ reqs[r].kind = "chat" /\ reqs[r].pc = "rPushUser"
       /\ \E ok \in BOOLEAN :
            IF ok
            THEN LET key == HistoryKey(reqs[r].sessionId)
                     item == Stringify(UserMessage(reqs[r].query))
                 IN  /\ store' = RPush(store, key, item)
                     /\ reqs' = WithRequest(r, [reqs[r] EXCEPT !.pc = "rPushBot",
                                                  !.appended = Append(@, item),
                                                  !.calls = Append(@, "rPush")],
                                            "rPush", key)
                     /\ UNCHANGED uuids
            ELSE ChatCatch(r, "rPushUser")
  /\ UNCHANGED <<chunkVars, ingestVars>>

\* await redisClient.rPush(historyKey, JSON.stringify(botMessage)) returns;
\* the answer is sent.
RPushBotReturns ==
  /\ \E r \in 1..Len(reqs) :
       /\ reqs[r].kind = "chat" /\ reqs[r].pc = "rPushBot"
       /\ \E ok \in BOOLEAN :
            IF ok
            THEN LET key == HistoryKey(reqs[r].sessionId)
                     item == Stringify(BotMessage(reqs[r].answer))
                 IN  /\ store' = RPush(store, key, item)
                     /\ reqs' = WithRequest(r, [reqs[r] EXCEPT !.pc = "done",
                                                  !.appended = Append(@, item),
                                                  !.resp = ChatAnswered(reqs[r])],
                                            "rPush", key)
                     /\ UNCHANGED uuids
            ELSE ChatCatch(r, "rPushBot")
  /\ UNCHANGED <<chunkVars, ingestVars>>

\* GET /api/history/:sessionId, up to its await: lRange is called.
ReceiveHistory ==
  /\ Len(reqs) < MaxRequests
  /\ \E given \in CallerSessions \ {Undefined} :
       reqs' = Append(reqs, Request("history", Undefined, given, given, "lRange",
                                    NoResponse, <<"lRange">>, <<>>))
  /\ UNCHANGED <<store, uuids>>
  /\ UNCHANGED <<chunkVars, ingestVars>>

\* await redisClient.lRange(historyKey, 0, -1) returns; the messages are
\* parsed and sent.
HistoryReturns ==
  /\ \E r \in 1..Len(reqs) :
       /\ reqs[r].kind = "history" /\ reqs[r].pc = "lRange"
       /\ \E ok \in BOOLEAN :
            LET key == HistoryKey(reqs[r].sessionId)
            IN  reqs' = WithRequest(r,
                  IF ok
                  THEN [reqs[r] EXCEPT !.pc = "done",
                          !.resp = HistoryAnswered(HistoryMessages(store, key))]
                  ELSE [reqs[r] EXCEPT !.pc = "done", !.failed = "lRange",
                          !.resp = HistoryFailed],
                  "", key)
  /\ UNCHANGED <<store, uuids>>
  /\ UNCHANGED <<chunkVars, ingestVars>>

\* POST /api/clear/:sessionId, up to its await: del is called.
ReceiveClear ==
  /\ Len(reqs) < MaxRequests
  /\ \E given \in CallerSessions \ {Undefined} :
       reqs' = Append(reqs, Request("clear", Undefined, given, given, "del",
                                    NoResponse, <<"del">>, <<>>))
  /\ UNCHANGED <<store, uuids>>
  /\ UNCHANGED <<chunkVars, ingestVars>>

\* await redisClient.del(historyKey) returns; the acknowledgment is sent.
ClearReturns ==
  /\ \E r \in 1..Len(reqs) :
       /\ reqs[r].kind = "clear" /\ reqs[r].pc = "del"
       /\ \E ok \in BOOLEAN :
            LET key == HistoryKey(reqs[r].sessionId)
            IN  IF ok
                THEN /\ store' = Del(store, key)
                     /\ reqs' = WithRequest(r, [reqs[r] EXCEPT !.pc = "done",
                                                  !.before = LRange(store, key),
                                                  !.touched = FALSE,
                                                  !.resp = ClearAnswered],
                                            "del", key)
                ELSE /\ reqs' = WithRequest(r, [reqs[r] EXCEPT !.pc = "done",
                                                  !.failed = "del",
                                                  !.resp = ClearFailed],
                                            "", key)
                     /\ UNCHANGED store
  /\ UNCHANGED uuids
  /\ UNCHANGED <<chunkVars, ingestVars>>

Next ==
  \/ ReceiveChat
  \/ EmbedSocketTimeout
  \/ EmbedReturns
  \/ SearchReturns
  \/ GenerateReturns
  \/ RPushUserReturns
  \/ RPushBotReturns
  \/ ReceiveHistory
  \/ HistoryReturns
  \/ ReceiveClear
  \/ ClearReturns

Init == ServerInit

Spec == Init /\ [][Next]_vars

\* ------------------------------------------------------------------------
\* embedAndStore (src/index.js 308-412)
\* ------------------------------------------------------------------------

\* const batchSize = 8
batchSize == 8

\* const upsertBatchSize = 100
upsertBatchSize == 100

\* await sleep(200) after a batch was embedded
EmbedPaceMs == 200

\* await new Promise((r) => setTimeout(r, 100)) after a batch was upserted
UpsertPaceMs == 100

\* The retry loops give up after this many failed attempts of one batch.
MaxAttempts == 3

\* A retry loop that allows one attempt more.
RetryExhaustedOneMore(n) == n > MaxAttempts

\* if (attempt >= 3) throw err
RetryExhausted(n) == n >= MaxAttempts

\* A job that gives up the article and goes on with the next one.
ThrownSkipsArticle == "nextArticle"

\* throw err in a retry loop: nothing in embedAndStore catches it, the
\* for-of loop over the articles is left and the job's promise rejects
\* (embedAndStore().catch(console.error)).
Thrown == "failed"

\* A backoff that does not grow with the attempt.
BackoffFixed(n) == 500

\* const backoffMs = 500 * attempt
BackoffMs(n) == 500 * n

\* Array.prototype.slice(from, to) of a 0-based array held as a 1-based
\* sequence.
Slice(arr, from, to) == SubSeq(arr, from + 1, IF to < Len(arr) THEN to ELSE Len(arr))

\* A batch loop that overlaps its batches by one element.
EmbedBatchOverlapping(cs, from) == Slice(cs, IF from > 0 THEN from - 1 ELSE 0, from + batchSize)

\* const batch = chunks.slice(start, start + batchSize)
EmbedBatch(cs, from) == Slice(cs, from, from + batchSize)

\* The vector the embedding service computes for a text: a value the text
\* determines, of which the job reads nothing.
Embedding(text) ==
  [len |-> Len(text), first |-> IF text = <<>> THEN "" ELSE text[1]]

\* What requestJinaEmbeddings can end with:
\*   "ok"      resolves with data holding one embedding per text, in order
\*   "short"   resolves with data that lacks the last text's embedding
\*   "nodata"  resolves with a body that has no data array
\*   "reject"  rejects (non-2xx status, unparsable body, transport error)
EmbedOutcomes == {"ok", "short", "nodata", "reject"}

\* resp.data of a call that resolved with a data array.
ResponseData(batch, outcome) ==
  LET n == IF outcome = "ok" THEN Len(batch) ELSE Len(batch) - 1
  IN  [i \in 1..n |-> [embedding |-> Embedding(batch[i])]]

\* The try block of the batch loop throws when the call rejects and when
\* resp.data is not iterable.
EmbedThrows(outcome) == outcome \in {"nodata", "reject"}

\* What qdrantClient.upsert can end with: "ok", "reject" (not applied), and
\* "lost" (applied by the server, the acknowledgment lost).
UpsertOutcomes == {"ok", "reject", "lost"}

\* Qdrant's upsert: a point replaces the point of the same id.
Upserted(coll, slice) ==
  [id \in DOMAIN coll \cup {slice[i].id : i \in 1..Len(slice)} |->
     IF \E i \in 1..Len(slice) : slice[i].id = id
     THEN LET i == CHOOSE i \in 1..Len(slice) : slice[i].id = id IN slice[i]
     ELSE coll[id]]

\* const points = allVectors.map((vector, index) => ({id: v4(), ...})), the
\* ids taken from the counter `from` on.
BuildPoints(vectors, cs, article, from) ==
  [i \in 1..Len(vectors) |->
     [id |-> from + i,
      vector |-> vectors[i],
      text |-> IF i <= Len(cs) THEN cs[i] ELSE <<"undefined">>,
      article_title |-> article.title,
      article_url |-> article.url]]

\* ---- the corpus of the model ----

Letters ==
  <<"a", "b", "c", "d", "e", "f", "g", "h", "i", "j", "k", "l", "m",
    "n", "o", "p", "q", "r", "s", "t", "u", "v", "w", "x", "y", "z">>

\* Character i of sentence k of a model article: the sentence has
\* DefaultChunkSize characters, the last a full stop, the others the k-th
\* letter (the alphabet repeated).
SentenceChar(k, i) ==
  IF i = DefaultChunkSize THEN "." ELSE Letters[((k - 1) % Len(Letters)) + 1]

Sentence(k) == [i \in 1..DefaultChunkSize |-> SentenceChar(k, i)]

\* The content of an article of n sentences, one space between two.
Content(n) ==
  [i \in 1..(n * (DefaultChunkSize + 1) - 1) |->
     LET k == ((i - 1) \div (DefaultChunkSize + 1)) + 1
         j == ((i - 1) % (DefaultChunkSize + 1)) + 1
     IN  IF j > DefaultChunkSize THEN " " ELSE SentenceChar(k, j)]

Article(n) == [title |-> "t", url |-> "u", content |-> Content(n)]

\* The corpora: one article of every size, and every pair of an empty, a
\* one-chunk and a two-batch article.
Corpora ==
  {<<Article(n)>> : n \in 0..MaxSentences}
    \cup {<<Article(a), Article(b)>> : a, b \in {0, 1, batchSize + 1}}
    \cup {<<>>}

IngestInit ==
  /\ ipc = "getCollections"
  /\ collectionExists \in BOOLEAN
  /\ collection = <<>>
  /\ articles \in Corpora
  /\ articleIdx = 0
  /\ chunks = <<>>
  /\ totalChunks = 0
  /\ start = 0
  /\ attempt = 0
  /\ allVectors = <<>>
  /\ points = <<>>
  /\ nextUuid = 0
  /\ thrown = 0
  /\ events = <<>>
  /\ faults = 0
  /\ ChunkIdle
  /\ ServerIdle

\* The model's bound on failures: an injected failure counts against
\* MaxFaults.
Inject(failed) ==
  /\ failed => faults < MaxFaults
  /\ faults' = IF failed THEN faults + 1 ELSE faults

\* const collections = await qdrantClient.getCollections(), and the test
\* for news_articles.
GetCollections ==
  /\ ipc = "getCollections"
  /\ \E ok \in BOOLEAN :
       /\ Inject(~ok)
       /\ events' = Append(events, [type |-> "getCollections", ok |-> ok])
       /\ IF ~ok
          THEN /\ ipc' = "failed"
               /\ thrown' = Len(events) + 1
          ELSE /\ ipc' = IF collectionExists THEN "readCorpus" ELSE "createCollection"
               /\ UNCHANGED thrown
  /\ UNCHANGED <<collectionExists, collection, articles, articleIdx, chunks,
                 totalChunks, start, attempt, allVectors, points, nextUuid>>
  /\ UNCHANGED <<chunkVars, serverVars>>

\* await qdrantClient.createCollection(COLLECTION_NAME, ...)
CreateCollection ==
  /\ ipc = "createCollection"
  /\ \E ok \in BOOLEAN :
       /\ Inject(~ok)
       /\ events' = Append(events, [type |-> "createCollection", ok |-> ok])
       /\ IF ~ok
          THEN /\ ipc' = "failed"
               /\ thrown' = Len(events) + 1
               /\ UNCHANGED collectionExists
          ELSE /\ ipc' = "readCorpus"
               /\ collectionExists' = TRUE
               /\ UNCHANGED thrown
  /\ UNCHANGED <<collection, articles, articleIdx, chunks, totalChunks, start,
                 attempt, allVectors, points, nextUuid>>
  /\ UNCHANGED <<chunkVars, serverVars>>

\* The head of the for-of loop over the articles, from the read of the corpus
\* or from the end of the previous article: the next article is chunked; an
\* article of no chunks is skipped; after the last one the job completes.
RECURSIVE SkipTo(_, _)
SkipTo(i, total) ==
  IF i > Len(articles)
  THEN [idx |-> i, total |-> total, chunks |-> <<>>]
  ELSE LET cs == chunkText(articles[i].content, DefaultChunkSize)
       IN  IF Len(cs) = 0
           THEN SkipTo(i + 1, total)
           ELSE [idx |-> i, total |-> total + Len(cs), chunks |-> cs]

NextArticle ==
  /\ ipc \in {"readCorpus", "nextArticle"}
  /\ LET nx == SkipTo(articleIdx + 1, totalChunks)
     IN  /\ articleIdx' = nx.idx
         /\ totalChunks' = nx.total
         /\ chunks' = nx.chunks
         /\ ipc' = IF nx.idx > Len(articles) THEN "complete" ELSE "embed"
  /\ start' = 0
  /\ attempt' = 0
  /\ allVectors' = <<>>
  /\ points' = <<>>
  /\ UNCHANGED <<collectionExists, collection, articles, nextUuid, thrown,
                 events, faults>>
  /\ UNCHANGED <<chunkVars, serverVars>>

\* One attempt of the embedding batch loop: the call, and what the try or the
\* catch block does with its outcome, up to the next call.
EmbedAttempt ==
  /\ ipc = "embed"
  /\ \E outcome \in EmbedOutcomes :
       LET batch == EmbedBatch(chunks, start)
           call == [type |-> "embed", article |-> articleIdx, from |-> start,
                    texts |-> batch, outcome |-> outcome]
       IN  /\ Inject(outcome # "ok")
           /\ IF EmbedThrows(outcome)
              THEN \* catch (err)
                   /\ attempt' = attempt + 1
                   /\ IF RetryExhausted(attempt + 1)
                      THEN /\ ipc' = Thrown
                           /\ thrown' = Len(events) + 1
                           /\ events' = Append(events, call)
                      ELSE /\ events' = events \o
                                <<call, [type |-> "sleep", ms |-> BackoffMs(attempt + 1)]>>
                           /\ UNCHANGED <<ipc, thrown>>
                   /\ UNCHANGED <<start, allVectors, points, nextUuid>>
              ELSE \* the try block runs to its break
                   LET data == ResponseData(batch, outcome)
                       vectors == allVectors \o [i \in 1..Len(data) |-> data[i].embedding]
                   IN  /\ allVectors' = vectors
                       /\ events' = events \o <<call, [type |-> "sleep", ms |-> EmbedPaceMs]>>
                       /\ IF start + batchSize < Len(chunks)
                          THEN /\ start' = start + batchSize
                               /\ attempt' = 0
                               /\ UNCHANGED <<ipc, points, nextUuid>>
                          ELSE \* the batch loop ends: the points are built
                               /\ points' = BuildPoints(vectors, chunks,
                                                        articles[articleIdx], nextUuid)
                               /\ nextUuid' = nextUuid + Len(vectors)
                               /\ start' = 0
                               /\ attempt' = 0
                               /\ ipc' = IF Len(vectors) = 0 THEN "nextArticle" ELSE "upsert"
                       /\ UNCHANGED thrown
  /\ UNCHANGED <<collectionExists, collection, articles, articleIdx, chunks,
                 totalChunks>>
  /\ UNCHANGED <<chunkVars, serverVars>>

\* One attempt of the upsert batch loop.
UpsertAttempt ==
  /\ ipc = "upsert"
  /\ \E outcome \in UpsertOutcomes :
       LET slice == Slice(points, start, start + upsertBatchSize)
           call == [type |-> "upsert", article |-> articleIdx, from |-> start,
                    ids |-> [i \in 1..Len(slice) |-> slice[i].id],
                    wait |-> TRUE, outcome |-> outcome]
       IN  /\ Inject(outcome # "ok")
           /\ collection' = IF outcome = "reject" THEN collection
                            ELSE Upserted(collection, slice)
           /\ IF outcome # "ok"
              THEN /\ attempt' = attempt + 1
                   /\ IF RetryExhausted(attempt + 1)
                      THEN /\ ipc' = Thrown
                           /\ thrown' = Len(events) + 1
                           /\ events' = Append(events, call)
                      ELSE /\ events' = events \o
                                <<call, [type |-> "sleep", ms |-> BackoffMs(attempt + 1)]>>
                           /\ UNCHANGED <<ipc, thrown>>
                   /\ UNCHANGED start
              ELSE /\ events' = events \o <<call, [type |-> "sleep", ms |-> UpsertPaceMs]>>
                   /\ attempt' = 0
                   /\ IF start + upsertBatchSize < Len(points)
                      THEN /\ start' = start + upsertBatchSize
                           /\ UNCHANGED ipc
                      ELSE /\ start' = 0
                           /\ ipc' = "nextArticle"
                   /\ UNCHANGED thrown
  /\ UNCHANGED <<collectionExists, articles, articleIdx, chunks, totalChunks,
                 allVectors, points, nextUuid>>
  /\ UNCHANGED <<chunkVars, serverVars>>

IngestNext ==
  \/ GetCollections
  \/ CreateCollection
  \/ NextArticle
  \/ EmbedAttempt
  \/ UpsertAttempt

SpecIngest == IngestInit /\ [][IngestNext]_vars

\* ------------------------------------------------------------------------
\* embedAndStore from the upsert loop of a large first article on
\* ------------------------------------------------------------------------

\* Corpora whose first article has enough chunks to fill one upsert batch,
\* or to need a second one.
LargeCorpora ==
  {<<Article(n), Article(1)>> : n \in {upsertBatchSize, upsertBatchSize + 1}}

\* The calls and sleeps of the batch loop over the chunks `cs` of article
\* `idx` when every call is answered in full.
EmbedEvents(cs, idx) ==
  LET batches == (Len(cs) + batchSize - 1) \div batchSize
  IN  [k \in 1..(2 * batches) |->
         LET from == batchSize * ((k - 1) \div 2)
         IN  IF k % 2 = 1
             THEN [type |-> "embed", article |-> idx, from |-> from,
                   texts |-> EmbedBatch(cs, from), outcome |-> "ok"]
             ELSE [type |-> "sleep", ms |-> EmbedPaceMs]]

\* The job where it enters the upsert loop of its first article: the
\* collection existed, the article was chunked, every embedding call was
\* answered in full and the points were built.
UpsertInit ==
  /\ articles \in LargeCorpora
  /\ articleIdx = 1
  /\ chunks = chunkText(articles[1].content, DefaultChunkSize)
  /\ totalChunks = Len(chunks)
  /\ allVectors = [i \in 1..Len(chunks) |-> Embedding(chunks[i])]
  /\ points = BuildPoints(allVectors, chunks, articles[1], 0)
  /\ nextUuid = Len(points)
  /\ events = <<[type |-> "getCollections", ok |-> TRUE]>> \o EmbedEvents(chunks, 1)
  /\ ipc = "upsert"
  /\ collectionExists = TRUE
  /\ collection = <<>>
  /\ start = 0
  /\ attempt = 0
  /\ thrown = 0
  /\ faults = 0
  /\ ChunkIdle
  /\ ServerIdle

UpsertNext ==
  \/ UpsertAttempt
  \/ NextArticle
  \/ EmbedAttempt

SpecUpsert == UpsertInit /\ [][UpsertNext]_vars

\* ------------------------------------------------------------------------
\* The chunker specification: chunkText applied to every small text
\* ------------------------------------------------------------------------

RECURSIVE TextsOfLen(_)
TextsOfLen(n) ==
  IF n = 0 THEN {<<>>}
  ELSE {Append(t, c) : t \in TextsOfLen(n - 1), c \in Alphabet}

Texts == UNION {TextsOfLen(n) : n \in 0..MaxLen}

ChunkInit ==
  /\ ctext \in Texts
  /\ cbound \in 0..MaxBound
  /\ cpc = "call"
  /\ cchunks = <<>>
  /\ IngestIdle
  /\ ServerIdle

ChunkCall ==
  /\ cpc = "call"
  /\ cchunks' = chunkText(ctext, cbound)
  /\ cpc' = "done"
  /\ UNCHANGED <<ctext, cbound>>
  /\ UNCHANGED <<ingestVars, serverVars>>

ChunkNext == ChunkCall

SpecChunk == ChunkInit /\ [][ChunkNext]_vars

\* ------------------------------------------------------------------------
\* Properties of the API server
\* ------------------------------------------------------------------------

ChatRequests == {r \in 1..Len(reqs) : reqs[r].kind = "chat"}

ClearRequests == {r \in 1..Len(reqs) : reqs[r].kind = "clear"}

HistoryRequests == {r \in 1..Len(reqs) : reqs[r].kind = "history"}

IsNonEmptyString(x) == x.t = "string" /\ x.v # ""

\* C1: a chat request that was answered, with no other request writing to its
\* session since it began: the session's list is the list it found followed by
\* the stored user message (the query) and the stored bot message (the
\* answer), and GET /api/history parses exactly that; the response carries
\* the generated answer and the session id of that list, which is the
\* caller's id, or else a new id no other request was given. For a new id
\* the list holds exactly the 2 messages, and every history response for that
\* id shows them.
C1_ChatAppendsExchange ==
  \A r \in ChatRequests :
    (reqs[r].resp.status = 200 /\ ~reqs[r].touched) =>
      LET req == reqs[r]
          key == HistoryKey(req.resp.sessionId)
          user == UserMessage(req.query)
          bot == BotMessage(req.resp.answer)
          old == [i \in 1..Len(req.before) |-> Parse(req.before[i])]
      IN  /\ req.resp.answer = Str(AnswerNames[r])
          /\ LRange(store, key) = req.before \o <<Stringify(user), Stringify(bot)>>
          /\ HistoryMessages(store, key) = old \o <<user, bot>>
          /\ ~Falsy(req.given) => req.resp.sessionId = req.given
          /\ Falsy(req.given) =>
               /\ req.resp.sessionId # ClientSession
               /\ IsNonEmptyString(req.resp.sessionId)
               /\ \A q \in ChatRequests \ {r} :
                    Falsy(reqs[q].given) => reqs[q].sessionId # req.resp.sessionId
               /\ HistoryMessages(store, key) = <<user, bot>>
               /\ \A h \in HistoryRequests :
                    (reqs[h].sessionId = req.resp.sessionId /\ reqs[h].resp.status = 200)
                      => reqs[h].resp.messages = <<user, bot>>

\* C1 witness: an answered chat request on the caller's session, which held a
\* transcript before, next to an answered chat request that was given a new
\* session id; no other request wrote to either session.
C1_Witness ==
  \E r, q \in ChatRequests :
    /\ reqs[r].resp.status = 200 /\ ~reqs[r].touched
    /\ ~Falsy(reqs[r].given) /\ reqs[r].before # <<>>
    /\ reqs[q].resp.status = 200 /\ ~reqs[q].touched
    /\ Falsy(reqs[q].given)

IsEmptyQuery(x) == x = Undefined \/ x = Str("")

\* C2: the step that receives a chat request with an empty or missing query
\* answers 400 "Query is required" at once, makes no external call, hands out
\* no session id and leaves every list as it is; and the request never makes a
\* call or appends anything later.
C2_EmptyQueryRejected ==
  /\ [][(Len(reqs') = Len(reqs) + 1
           /\ reqs'[Len(reqs')].kind = "chat"
           /\ IsEmptyQuery(reqs'[Len(reqs')].query))
          => /\ reqs'[Len(reqs')].resp = QueryRequired
             /\ reqs'[Len(reqs')].pc = "done"
             /\ reqs'[Len(reqs')].calls = <<>>
             /\ store' = store
             /\ uuids' = uuids]_vars
  /\ [](\A r \in ChatRequests :
          IsEmptyQuery(reqs[r].query) =>
            /\ reqs[r].resp = QueryRequired
            /\ reqs[r].calls = <<>>
            /\ reqs[r].appended = <<>>)

\* C2 witness: a request with the empty string as query was rejected while a
\* transcript was stored.
C2_Witness ==
  /\ \E r \in ChatRequests :
       reqs[r].query = Str("") /\ reqs[r].resp.status = 400
  /\ \E r \in ChatRequests :
       reqs[r].query = Undefined /\ reqs[r].resp.status = 400
  /\ DOMAIN store # {}

\* C3: a chat request whose query is not a non-empty string is rejected with
\* 400 and makes no external call.
C3_NonStringQueryRejected ==
  \A r \in ChatRequests :
    ~IsNonEmptyString(reqs[r].query) =>
      /\ reqs[r].resp = QueryRequired
      /\ reqs[r].calls = <<>>

\* The generic failure of POST /api/chat.
IsGenericFailure(resp) ==
  /\ resp.status = 500
  /\ resp.answer = Undefined
  /\ resp.sessionId = Undefined

\* C4: a chat response that carries an answer was sent by a request that had
\* appended the user message and then the bot message with that answer; a
\* request one of whose appends failed was answered with the generic failure,
\* without answer.
C4_AnswerOnlyAfterBothAppends ==
  \A r \in ChatRequests :
    /\ reqs[r].resp.answer # Undefined =>
         /\ reqs[r].resp.status = 200
         /\ reqs[r].appended =
              <<Stringify(UserMessage(reqs[r].query)),
                Stringify(BotMessage(reqs[r].resp.answer))>>
    /\ Len(reqs[r].appended) < 2 => reqs[r].resp.answer = Undefined
    /\ reqs[r].failed \in {"rPushUser", "rPushBot"} =>
         IsGenericFailure(reqs[r].resp)

\* C4 witness: the append of the bot message failed after the user message
\* was stored, and the request was answered without the answer it had
\* generated.
C4_Witness ==
  \E r \in ChatRequests :
    /\ reqs[r].failed = "rPushBot"
    /\ Len(reqs[r].appended) = 1
    /\ reqs[r].answer # Undefined
    /\ IsGenericFailure(reqs[r].resp)

\* C5: a clear request whose DEL call returned is acknowledged, whether or
\* not the list existed; as long as nothing is appended afterwards the key
\* does not exist and GET /api/history parses the empty sequence; the step
\* that runs DEL changes no other list, and changes nothing at all when the
\* list did not exist (clearing twice is clearing once).
C5_ClearIdempotent ==
  /\ [](\A c \in ClearRequests :
          (reqs[c].pc = "done" /\ reqs[c].failed = "") =>
            /\ reqs[c].resp = ClearAnswered
            /\ ~reqs[c].touched =>
                 /\ HistoryKey(reqs[c].sessionId) \notin DOMAIN store
                 /\ HistoryMessages(store, HistoryKey(reqs[c].sessionId)) = <<>>)
  /\ [][\A c \in 1..Len(reqs) :
          (reqs[c].kind = "clear" /\ reqs[c].pc = "del"
             /\ reqs'[c].pc = "done" /\ reqs'[c].failed = "")
            => LET key == HistoryKey(reqs[c].sessionId)
               IN  /\ \A k \in DOMAIN store \ {key} :
                         k \in DOMAIN store' /\ store'[k] = store[k]
                   /\ DOMAIN store' = DOMAIN store \ {key}
                   /\ key \notin DOMAIN store => store' = store]_vars

\* C5 witness: a session was cleared twice, both times acknowledged: the
\* first clear found a transcript, the second found none.
C5_Witness ==
  \E c, d \in ClearRequests :
    /\ reqs[c].sessionId = reqs[d].sessionId
    /\ reqs[c].resp = ClearAnswered /\ reqs[c].before # <<>>
    /\ reqs[d].resp = ClearAnswered /\ reqs[d].before = <<>>
    /\ HistoryMessages(store, HistoryKey(reqs[c].sessionId)) = <<>>

\* ------------------------------------------------------------------------
\* Properties of the embedding batch loop
\* ------------------------------------------------------------------------

IsEmbedCall(p) == events[p].type = "embed"

IsFailedEmbedCall(p) == IsEmbedCall(p) /\ EmbedThrows(events[p].outcome)

SameBatch(p, q) ==
  /\ events[p].article = events[q].article
  /\ events[p].from = events[q].from

\* The number of failed attempts of the batch of call p, up to and with p.
FailedAttempts(p) ==
  Cardinality({q \in 1..p : IsFailedEmbedCall(q) /\ SameBatch(p, q)})

IsSleep(p, ms) ==
  /\ p <= Len(events)
  /\ events[p].type = "sleep"
  /\ events[p].ms = ms

\* C6: every embedding batch is attempted at most 3 times, counted per
\* batch. The n-th failed attempt of a batch, n < 3, is followed by one sleep
\* of 500ms * n and then by the next attempt of the same batch; the 3rd
\* failed attempt is the job's last event: its error is the one the job
\* rejects with, no sleep and no 4th attempt follow. An attempt that
\* succeeds appends the vectors it returned to allVectors.
C6_EmbedRetryPolicy ==
  /\ \A p \in 1..Len(events) :
       IsFailedEmbedCall(p) =>
         LET n == FailedAttempts(p)
         IN  /\ n <= 3
             /\ n < 3 =>
                  /\ IsSleep(p + 1, 500 * n)
                  /\ p + 2 <= Len(events) =>
                       IsEmbedCall(p + 2) /\ SameBatch(p, p + 2)
             /\ n = 3 =>
                  /\ p = Len(events)
                  /\ ipc = "failed"
                  /\ thrown = p
  /\ \A p \in 1..Len(events) :
       (IsEmbedCall(p) /\ ~EmbedThrows(events[p].outcome)) =>
         /\ FailedAttempts(p) <= 2
         /\ IsSleep(p + 1, 200)
         /\ (p + 1 = Len(events) /\ events[p].outcome = "ok") =>
              LET texts == events[p].texts
                  k == Len(allVectors) - Len(texts)
              IN  /\ k >= 0
                  /\ \A i \in 1..Len(texts) :
                       allVectors[k + i] = Embedding(texts[i])

\* C6 witness: a batch after the article's first one failed twice, with the
\* sleeps 500 and 1000, and succeeded at the third attempt.
C6_Witness ==
  \E p \in 5..Len(events) :
    /\ IsEmbedCall(p)
    /\ events[p].outcome = "ok"
    /\ events[p].from > 0
    /\ IsFailedEmbedCall(p - 4) /\ SameBatch(p, p - 4)
    /\ IsSleep(p - 3, 500)
    /\ IsFailedEmbedCall(p - 2) /\ SameBatch(p, p - 2)
    /\ IsSleep(p - 1, 1000)

\* The embedding calls made for the article being processed, in order.
ArticleEmbedCalls ==
  SelectSeq(events, LAMBDA e : e.type = "embed" /\ e.article = articleIdx)

AllCallsOk(calls) == \A c \in 1..Len(calls) : calls[c].outcome = "ok"

\* The batch loop of the article being processed has ended.
EmbedPhaseDone ==
  \/ ipc \in {"upsert", "nextArticle"}
  \/ ipc = "failed" /\ events[thrown].type = "upsert"

\* C7: while no embedding call of the article has failed, call c carries the
\* chunks 8(c-1)+1 .. min(8c, N) in their order and allVectors holds the
\* vector of chunk i at position i; when the batch loop has ended there were
\* exactly ceil(N/8) calls and allVectors covers all N chunks.
C7_BatchesCoverChunksInOrder ==
  LET calls == ArticleEmbedCalls
      N == Len(chunks)
  IN  (articleIdx \in 1..Len(articles) /\ AllCallsOk(calls)) =>
        /\ \A c \in 1..Len(calls) :
             /\ calls[c].from = batchSize * (c - 1)
             /\ Len(calls[c].texts) <= batchSize
             /\ calls[c].texts =
                  SubSeq(chunks, batchSize * (c - 1) + 1,
                         IF batchSize * c < N THEN batchSize * c ELSE N)
        /\ Len(allVectors) = (IF batchSize * Len(calls) < N
                              THEN batchSize * Len(calls) ELSE N)
        /\ \A i \in 1..Len(allVectors) : allVectors[i] = Embedding(chunks[i])
        /\ EmbedPhaseDone =>
             /\ Len(calls) = (N + batchSize - 1) \div batchSize
             /\ Len(allVectors) = N

\* C7 witness: an article of more than two full batches embedded without a
\* failure.
C7_Witness ==
  /\ articleIdx \in 1..Len(articles)
  /\ EmbedPhaseDone
  /\ AllCallsOk(ArticleEmbedCalls)
  /\ Len(chunks) > 2 * batchSize
  /\ Len(ArticleEmbedCalls) = 3

\* ------------------------------------------------------------------------
\* Properties of chunkText
\* ------------------------------------------------------------------------

\* The sentences of the text the chunker was called with.
csentences == SplitSentences(ctext)

RECURSIVE Flatten(_)
Flatten(ss) == IF ss = <<>> THEN <<>> ELSE Head(ss) \o Flatten(Tail(ss))

IsNonEmpty(s) == s # <<>>

\* A sentence sequence with the white space around each sentence, and the
\* sentences that are nothing but white space, left out.
Normal(ss) == SelectSeq([i \in 1..Len(ss) |-> Trim(ss[i])], IsNonEmpty)

\* The sentences of all chunks, in order.
ChunkSentences(cs) ==
  Flatten([j \in 1..Len(cs) |-> SplitSentences(cs[j])])

\* C8: every chunk chunkText returns is at most chunkSize long, unless it is
\* one sentence that alone is longer than chunkSize; and every such sentence
\* is returned as a chunk of its own (trimmed), not merged and not split.
C8_ChunkLengthBound ==
  cpc = "done" =>
    /\ \A j \in 1..Len(cchunks) :
          \/ Len(cchunks[j]) <= cbound
          \/ \E k \in 1..Len(csentences) :
                /\ Len(csentences[k]) > cbound
                /\ cchunks[j] = Trim(csentences[k])
    /\ \A k \in 1..Len(csentences) :
          Len(csentences[k]) > cbound =>
            \E j \in 1..Len(cchunks) : cchunks[j] = Trim(csentences[k])

\* C8 witness: a call that returned an oversized one-sentence chunk next to a
\* chunk of two sentences that is within the bound.
C8_Witness ==
  /\ cpc = "done"
  /\ \E j \in 1..Len(cchunks) : Len(cchunks[j]) > cbound
  /\ \E j \in 1..Len(cchunks) :
        /\ Len(cchunks[j]) <= cbound
        /\ Len(SplitSentences(cchunks[j])) = 2

\* C9: chunkText of the empty string returns no chunk at all.
C9_EmptyTextNoChunks ==
  (cpc = "done" /\ ctext = <<>>) => cchunks = <<>>

\* C10: the sentences of the chunks, in order, are the sentences of the text
\* (the white space the chunker inserts or trims aside): none lost, none
\* duplicated, none reordered, none in two chunks.
C10_ChunksPartitionSentences ==
  cpc = "done" => Normal(ChunkSentences(cchunks)) = Normal(csentences)

\* C10 witness: a text of at least three sentences returned as at least two
\* chunks, one of them holding two sentences.
C10_Witness ==
  /\ cpc = "done"
  /\ Len(Normal(csentences)) >= 3
  /\ Len(cchunks) >= 2
  /\ \E j \in 1..Len(cchunks) : Len(SplitSentences(cchunks[j])) >= 2

\* ------------------------------------------------------------------------
\* Properties of the chat pipeline: its stages and its failures
\* ------------------------------------------------------------------------

\* The calls of a chat request that ran all its stages.
StageCalls == <<"embed", "search", "generate", "rPush", "rPush">>

IsPrefix(s, t) == Len(s) <= Len(t) /\ s = SubSeq(t, 1, Len(s))

\* C11: a chat request whose search resolved with the empty result set was
\* not failed by it: the prompt was assembled with the empty context and
\* generation was called; and when the request ended, it had appended both
\* messages and returned the generated answer.
C11_EmptySearchProceeds ==
  \A r \in ChatRequests :
    reqs[r].searchResponse = << <<>> >> =>
      /\ reqs[r].failed = ""
      /\ reqs[r].pc \in {"generate", "rPushUser", "rPushBot", "done"}
      /\ Len(reqs[r].calls) >= 3 /\ reqs[r].calls[3] = "generate"
      /\ reqs[r].context = <<>>
      /\ reqs[r].prompt = Prompt(<<>>, reqs[r].query)
      /\ reqs[r].pc = "done" =>
           /\ reqs[r].resp =
                Response(200, "", Str(AnswerNames[r]), reqs[r].sessionId, "", <<>>)
           /\ reqs[r].appended =
                <<Stringify(UserMessage(reqs[r].query)),
                  Stringify(BotMessage(Str(AnswerNames[r])))>>

\* C11 witness: a request whose search found nothing was answered, both
\* messages stored.
C11_Witness ==
  \E r \in ChatRequests :
    /\ reqs[r].searchResponse = << <<>> >>
    /\ reqs[r].resp.status = 200
    /\ reqs[r].resp.answer # Undefined
    /\ Len(reqs[r].appended) = 2
    /\ Len(LRange(store, HistoryKey(reqs[r].sessionId))) >= 2

\* C12: whatever call of a chat request failed, and whatever error the
\* provider answered with, the response is one fixed payload: status 500, the
\* generic message, no answer, no session id, nothing of the provider's
\* error.
C12_FailureResponseFixed ==
  \A r \in ChatRequests :
    reqs[r].failed # "" =>
      /\ reqs[r].resp.status = 500
      /\ reqs[r].resp.error = "An error occurred while processing your request."
      /\ reqs[r].resp.error \notin ProviderErrors
      /\ reqs[r].resp.answer = Undefined
      /\ reqs[r].resp.sessionId = Undefined
      /\ reqs[r].resp.message = ""
      /\ reqs[r].resp.messages = <<>>
      /\ \A q \in ChatRequests : reqs[q].failed # "" => reqs[q].resp = reqs[r].resp

\* C12 witness: two requests failed in different calls, one of them after it
\* had generated an answer for a session id of its own, and got the same
\* response.
C12_Witness ==
  \E r, q \in ChatRequests :
    /\ reqs[r].failed = "embed"
    /\ reqs[q].failed \in {"rPushUser", "rPushBot"}
    /\ reqs[q].answer # Undefined
    /\ Falsy(reqs[q].given)
    /\ reqs[r].resp = reqs[q].resp
    /\ reqs[r].resp.status = 500

\* C13: the calls of a chat request are a prefix of embed, search, generate,
\* append, append, its position tells how long the prefix is, and the
\* response follows the last of them; a request that failed made no call
\* after the failing one (no store write before the first append was
\* called), and was answered with status 500. A request that was answered
\* makes no further call, appends nothing and is not answered again, and only
\* a request at an append or a delete changes the store.
C13_StagesInOrderOnce ==
  /\ [](\A r \in ChatRequests :
          LET req == reqs[r]
              n == Len(req.calls)
          IN  /\ IsPrefix(req.calls, StageCalls)
              /\ req.pc = "embed" => n = 1
              /\ req.pc = "search" => n = 2
              /\ req.pc = "generate" => n = 3
              /\ req.pc = "rPushUser" => n = 4 /\ req.appended = <<>>
              /\ req.pc = "rPushBot" => n = 5 /\ Len(req.appended) = 1
              /\ req.resp # NoResponse <=> req.pc = "done"
              /\ req.resp.status = 200 => n = 5 /\ Len(req.appended) = 2
              /\ req.resp.status = 400 => n = 0 /\ req.appended = <<>>
              /\ req.failed # "" => req.pc = "done" /\ req.resp.status = 500
              /\ req.failed = "embed" => n = 1 /\ req.appended = <<>>
              /\ req.failed \in {"search", "context"} => n = 2 /\ req.appended = <<>>
              /\ req.failed = "generate" => n = 3 /\ req.appended = <<>>
              /\ req.failed = "rPushUser" => n = 4 /\ req.appended = <<>>
              /\ req.failed = "rPushBot" => n = 5 /\ Len(req.appended) = 1)
  /\ [][/\ \A r \in 1..Len(reqs) :
             (reqs[r].kind = "chat" /\ reqs[r].pc = "done") =>
               /\ reqs'[r].pc = "done"
               /\ reqs'[r].resp = reqs[r].resp
               /\ reqs'[r].calls = reqs[r].calls
               /\ reqs'[r].appended = reqs[r].appended
               /\ reqs'[r].failed = reqs[r].failed
        /\ store' # store =>
             \E r \in 1..Len(reqs) :
               /\ reqs[r].pc \in {"rPushUser", "rPushBot", "del"}
               /\ reqs'[r].pc # reqs[r].pc
               /\ reqs'[r].failed = ""]_vars

\* C13 witness: one request failed in generation, after three calls and with
\* nothing stored, and another ran all five calls and was answered.
C13_Witness ==
  \E r, q \in ChatRequests :
    /\ reqs[r].failed = "generate"
    /\ reqs[r].calls = <<"embed", "search", "generate">>
    /\ reqs[r].resp.status = 500
    /\ reqs[q].calls = StageCalls
    /\ reqs[q].resp.status = 200

\* C14: a chat request does not wait for its embedding call any longer than
\* the time of the timeout option: when the socket has been idle that long,
\* the call has been rejected.
C14_EmbedCallTimesOut ==
  \A r \in ChatRequests :
    reqs[r].pc = "embed" => reqs[r].idleMs < EmbedTimeoutMs

\* ------------------------------------------------------------------------
\* Properties of the ingestion job: malformed responses, points, upserts
\* ------------------------------------------------------------------------

\* An embedding response whose data array is missing or lacks an embedding.
IsMalformed(outcome) == outcome \in {"short", "nodata"}

\* C15: an embedding call of the batch loop that is answered with a
\* malformed response counts as a failed attempt of its batch and adds
\* nothing to allVectors.
C15_MalformedResponseRejected ==
  [][(/\ Len(events') > Len(events)
      /\ events'[Len(events) + 1].type = "embed"
      /\ IsMalformed(events'[Len(events) + 1].outcome))
       => /\ allVectors' = allVectors
          /\ attempt' = attempt + 1]_vars

\* C16: when the job enters the upsert loop of an article there is one point
\* per chunk, and point i carries chunk i and the vector of chunk i.
C16_OnePointPerChunk ==
  ipc = "upsert" =>
    /\ Len(points) = Len(chunks)
    /\ \A i \in 1..Len(points) :
         i <= Len(chunks) =>
           /\ points[i].text = chunks[i]
           /\ points[i].vector = Embedding(chunks[i])

IsUpsertCall(p) == events[p].type = "upsert"

IsFailedUpsertCall(p) == IsUpsertCall(p) /\ events[p].outcome # "ok"

\* The number of failed attempts of the upsert batch of call p, up to and
\* with p.
FailedUpserts(p) ==
  Cardinality({q \in 1..p : IsFailedUpsertCall(q) /\ SameBatch(p, q)})

\* C17: every upsert call carries at most 100 points and waits for the
\* write; a batch after the first is sent only after the batch before it was
\* acknowledged. The n-th failed attempt of a batch, n < 3, is followed by
\* one sleep of 500ms * n and then by the next attempt of the same batch with
\* the same points; the 3rd failed attempt is the job's last event: its error
\* is the one the job rejects with, and no upsert follows. An acknowledged
\* batch is followed by the pacing sleep.
C17_UpsertRetryPolicy ==
  \A p \in 1..Len(events) :
    IsUpsertCall(p) =>
      LET n == FailedUpserts(p)
          call == events[p]
      IN  /\ Len(call.ids) \in 1..100
          /\ call.wait
          /\ call.from % 100 = 0
          /\ call.from > 0 =>
               \E q \in 1..(p - 1) :
                 /\ IsUpsertCall(q)
                 /\ events[q].article = call.article
                 /\ events[q].from = call.from - 100
                 /\ events[q].outcome = "ok"
                 /\ \A k \in (q + 1)..(p - 1) :
                      IsUpsertCall(k) => SameBatch(k, p)
          /\ n <= 3
          /\ (call.outcome # "ok" /\ n < 3) =>
               /\ IsSleep(p + 1, 500 * n)
               /\ p + 2 <= Len(events) =>
                    /\ IsUpsertCall(p + 2) /\ SameBatch(p, p + 2)
                    /\ events[p + 2].ids = call.ids
          /\ (call.outcome # "ok" /\ n = 3) =>
               /\ p = Len(events)
               /\ ipc = "failed"
               /\ thrown = p
          /\ call.outcome = "ok" =>
               /\ n <= 2
               /\ IsSleep(p + 1, 100)

\* C17 witness: the first batch of an article of 101 points was acknowledged,
\* the second failed three times with the sleeps 500 and 1000 between, and
\* the job failed.
C17_Witness ==
  \E p \in 6..Len(events) :
    /\ p = Len(events) /\ ipc = "failed"
    /\ IsFailedUpsertCall(p) /\ events[p].from = upsertBatchSize
    /\ IsSleep(p - 1, 1000)
    /\ IsFailedUpsertCall(p - 2) /\ SameBatch(p, p - 2)
    /\ IsSleep(p - 3, 500)
    /\ IsFailedUpsertCall(p - 4) /\ SameBatch(p, p - 4)
    /\ IsUpsertCall(p - 6) /\ events[p - 6].outcome = "ok"
    /\ events[p - 6].from = 0

\* The ids of the points the collection was sent up to event p, in calls the
\* server applied.
AppliedIds(p) ==
  UNION {{events[q].ids[i] : i \in 1..Len(events[q].ids)} :
           q \in {q \in 1..p : IsUpsertCall(q) /\ events[q].outcome # "reject"}}

\* Call p was the third failed attempt of its batch.
IsThirdFailure(p) ==
  \/ IsFailedEmbedCall(p) /\ FailedAttempts(p) >= 3
  \/ IsFailedUpsertCall(p) /\ FailedUpserts(p) >= 3

\* C18: when a batch has failed for the third time the job has halted: the
\* failed call is the last event, it belongs to the article being processed,
\* no call was made for a later article, and no step follows. The points of
\* every upsert the server applied are in the collection, unchanged; and when
\* it was an embedding batch that failed, no upsert was sent for its article.
C18_FailureHaltsJob ==
  /\ [](\A t \in 1..Len(events) :
          IsThirdFailure(t) =>
            /\ ipc = "failed"
            /\ thrown = t
            /\ t = Len(events)
            /\ events[t].article = articleIdx
            /\ \A p \in 1..Len(events) :
                 (IsEmbedCall(p) \/ IsUpsertCall(p)) =>
                   events[p].article <= articleIdx
            /\ DOMAIN collection = AppliedIds(Len(events))
            /\ \A i \in 1..Len(points) :
                 points[i].id \in DOMAIN collection =>
                   collection[points[i].id] = points[i]
            /\ IsEmbedCall(t) =>
                 \A p \in 1..Len(events) :
                   IsUpsertCall(p) => events[p].article < articleIdx)
  /\ [][ipc # "failed"]_vars

\* C18 witness: the second article's embedding batch failed three times
\* after both upsert batches of the first article were stored: the job has
\* failed, the collection holds the first article's 101 points and none of
\* the second.
C18_Witness ==
  /\ ipc = "failed"
  /\ Len(articles) = 2 /\ articleIdx = 2
  /\ IsEmbedCall(thrown) /\ IsThirdFailure(thrown)
  /\ Cardinality(DOMAIN collection) = upsertBatchSize + 1
  /\ \E p, q \in 1..Len(events) :
       /\ IsUpsertCall(p) /\ events[p].article = 1 /\ events[p].from = 0
       /\ IsUpsertCall(q) /\ events[q].article = 1 /\ events[q].from = upsertBatchSize
       /\ events[p].outcome = "ok" /\ events[q].outcome = "ok"
       /\ \A i \in 1..Len(events[p].ids) : events[p].ids[i] \in DOMAIN collection
       /\ \A i \in 1..Len(events[q].ids) : events[q].ids[i] \in DOMAIN collection

\* ------------------------------------------------------------------------
\* Properties of the transcripts under concurrent and failed requests
\* ------------------------------------------------------------------------

\* The exchange a chat request stores: the user message, then the bot answer.
ExchangeOf(r) ==
  <<Stringify(UserMessage(reqs[r].query)), Stringify(BotMessage(reqs[r].answer))>>

\* The stored list is a sequence of complete exchanges: of even length,
\* every user message directly followed by the answer to it, the pair either
\* left by an earlier run of the server or stored by one chat request.
IsExchanges(list) ==
  /\ Len(list) % 2 = 0
  /\ \A i \in 1..Len(list) :
       i % 2 = 1 =>
         /\ Parse(list[i]).sender = "user"
         /\ Parse(list[i + 1]).sender = "bot"
         /\ \/ \E st \in InitialStores :
                 \E k \in DOMAIN st : SubSeq(list, i, i + 1) = st[k]
            \/ \E r \in ChatRequests :
                 /\ reqs[r].answer # Undefined
                 /\ SubSeq(list, i, i + 1) = ExchangeOf(r)

\* C19: once every request has finished, none of them failed, every
\* session's transcript is a sequence of complete exchanges, however the
\* requests were interleaved.
C19_TranscriptsAreExchanges ==
  (\A r \in 1..Len(reqs) : reqs[r].pc = "done" /\ reqs[r].failed = "") =>
    \A key \in DOMAIN store : IsExchanges(store[key])

\* C20: a chat request that was answered with status 400 or 500 has appended
\* nothing, and unless another request wrote to its session meanwhile, the
\* session's list is the list the request found.
C20_FailedChatLeavesTranscripts ==
  \A r \in ChatRequests :
    reqs[r].resp.status \in {400, 500} =>
      /\ reqs[r].appended = <<>>
      /\ (reqs[r].resp.status = 500 /\ ~reqs[r].touched) =>
           LRange(store, HistoryKey(reqs[r].sessionId)) = reqs[r].before

\* ------------------------------------------------------------------------
\* Upsert retries and the points of the collection
\* ------------------------------------------------------------------------

\* C21: a job that started on an empty collection and completed has left
\* exactly one point per chunk in the collection, whatever upsert attempts
\* were rejected, or applied and reported as failed, and sent again.
C21_CompletedRunOnePointPerChunk ==
  ipc = "complete" => Cardinality(DOMAIN collection) = totalChunks

====
